---- MODULE Spec2Model ----
(***************************************************************************)
(* A model of the opentp-sdk event pipeline: ConsentManager, EventQueue,   *)
(* Dispatcher (middleware chain and adapter fan-out) and the wiring of     *)
(* createTracker.  JavaScript runs handlers to completion; an `await`, a   *)
(* timer callback and the completion of an adapter's I/O are the points    *)
(* where other handlers interleave, and each is an action of its own.      *)
(***************************************************************************)
EXTENDS Integers, Sequences, FiniteSets, Bags, TLC

(***************************************************************************)
(* Bounds of the model.                                                    *)
(***************************************************************************)
MaxEvents == 3    \* events created in one behaviour
MaxMaxSize == 3   \* largest QueueConfig.maxSize drawn for the EventQueue
MaxChain == 2     \* longest middleware chain drawn
MaxEmits == 2     \* calls of the tracker's event methods in one behaviour

VARIABLES
    events,           \* config.events: the catalog, a set of event definitions
    adapters,         \* config.adapters: sequence of adapter names
    middlewareChain,  \* Dispatcher.middlewareChain: sequence of middleware
    queueEnabled,     \* createTracker: queue # null
    maxSize,          \* EventQueue.maxSize
    flushInterval,    \* EventQueue.flushInterval
    mapping,          \* ConsentManager.mapping
    defaultCategory,  \* ConsentManager.defaultCategory
    state,            \* ConsentManager.state
    queue,            \* EventQueue.queue, the buffer
    timer,            \* EventQueue.timer # null
    tasks,            \* calls of Dispatcher.dispatch / dispatchBatch, in call order
    errors,           \* invocations of onError: a bag of errors
    created,          \* number of events created so far
    denied,           \* ids of the events dispatchEvent dropped for lack of consent
    destroyed,        \* EventQueue.destroy() has been called
    teardown,         \* progress of tracker.destroy()
    inits,            \* per adapter, how its init() ended at construction
    asked,            \* the last call of ConsentManager.isAllowed and its result
    threw             \* ids of the events whose payload builder threw

vars == <<events, adapters, middlewareChain, queueEnabled, maxSize, flushInterval, mapping,
          defaultCategory, state, queue, timer, tasks, errors, created, denied, destroyed, teardown,
          inits, asked, threw>>

config == <<events, adapters, middlewareChain, queueEnabled, maxSize, flushInterval, mapping,
            defaultCategory, inits>>

(***************************************************************************)
(* Events, adapters.                                                       *)
(***************************************************************************)
\* The event catalog of the tests: area "auth", events login and logout.
EventDefs == { [area |-> "auth", eventName |-> "login"],
               [area |-> "auth", eventName |-> "logout"] }

\* DispatchedEvent; key is area::eventName, metadata is the list of marks
\* middleware added.
MkEvent(n, d) == [id |-> n, area |-> d.area, eventName |-> d.eventName, metadata |-> <<>>]

\* null, as runMiddleware resolves it for a filtered event
NoEvent == [id |-> 0, area |-> "", eventName |-> "", metadata |-> <<>>]

\* Adapter: the optional members each adapter defines.
HasSendBatch(a) == a \in {"snowplow", "amplitude"}
HasInit(a) == a \in {"ga4", "amplitude"}
HasDestroy(a) == a \in {"snowplow", "ga4", "amplitude"}

Range(s) == { s[i] : i \in DOMAIN s }

(***************************************************************************)
(* Dispatcher.runMiddleware.  A middleware is one of                       *)
(*   pass    calls next(event) before it returns                           *)
(*   tag     calls next with a mark added to event.metadata                *)
(*   drop    never calls next                                              *)
(*   filter  drops the logout events and passes the others                 *)
(*   late    calls next(event) only after it has returned                  *)
(*   twice   calls next(event) two times before it returns                 *)
(* A run is the closure state of one runMiddleware call.                   *)
(***************************************************************************)
MiddlewareKinds == {"pass", "tag", "drop", "filter", "late", "twice"}

NewRun == [index |-> 0, resolved |-> FALSE, result |-> NoEvent,
           timerSet |-> FALSE, timerFired |-> FALSE,
           pending |-> {}, invoked |-> <<>>]

Mark(e, i) == [e EXCEPT !.metadata = Append(@, i)]

RECURSIVE next(_, _), InvokeMiddleware(_, _, _)

\* const next = (e) => { ... }
next(r, e) ==
    IF r.resolved THEN r
    ELSE LET r1 == [r EXCEPT !.index = @ + 1] IN
         IF r1.index >= Len(middlewareChain)
         THEN [r1 EXCEPT !.resolved = TRUE, !.result = e]
         ELSE InvokeMiddleware(r1, r1.index, e)

\* this.middlewareChain[i](e, next), i counted from 0 as in the code
InvokeMiddleware(r, i, e) ==
    LET m == middlewareChain[i + 1]
        r0 == [r EXCEPT !.invoked = Append(@, <<i, e>>)]
    IN  CASE m = "pass" -> next(r0, e)
          [] m = "tag" -> next(r0, Mark(e, i))
          [] m = "drop" -> r0
          [] m = "filter" -> IF e.eventName = "logout" THEN r0 ELSE next(r0, e)
          [] m = "late" -> [r0 EXCEPT !.pending = @ \cup {<<i, e>>}]
          [] m = "twice" -> next(next(r0, e), e)

\* The synchronous part of runMiddleware(event): the promise executor.
runMiddleware(e) ==
    IF Len(middlewareChain) = 0
    THEN [NewRun EXCEPT !.resolved = TRUE, !.result = e]
    ELSE [InvokeMiddleware(NewRun, 0, e) EXCEPT !.timerSet = TRUE]

\* A timer callback that drops the event whatever the index
RunTimeout_anyIndex(r) ==
    LET r1 == [r EXCEPT !.timerFired = TRUE] IN
    IF ~r.resolved
    THEN [r1 EXCEPT !.resolved = TRUE, !.result = NoEvent]
    ELSE r1

\* The setTimeout(..., 0) callback of a run.
RunTimeout(r) ==
    LET r1 == [r EXCEPT !.timerFired = TRUE] IN
    IF ~r.resolved /\ r.index = 0
    THEN [r1 EXCEPT !.resolved = TRUE, !.result = NoEvent]
    ELSE r1

\* A late middleware calls the next it was given.
RunLateNext(r, p) == next([r EXCEPT !.pending = @ \ {p}], p[2])

(***************************************************************************)
(* Dispatcher.dispatch and Dispatcher.dispatchBatch.  A task is one call:  *)
(*   kind       "dispatch" or "batch"                                      *)
(*   via        who called and holds the returned promise: "api" (a direct *)
(*              caller of the Dispatcher), "direct" (dispatchEvent, with   *)
(*              its .catch), "push", "timer", "flush", "destroy" (the      *)
(*              EventQueue entry point that invoked the release callback)  *)
(*   events     the argument                                               *)
(*   runs       the runMiddleware calls made so far, one per event         *)
(*   processed  the events whose chain resolved with an event              *)
(*   phase      "middleware" (awaiting runMiddleware), "send" (adapters    *)
(*              invoked), "filtered" (returned without contacting any)     *)
(*   sends      per adapter: got, the send/sendBatch calls it received in  *)
(*              this task, and st, the state of its async callback passed  *)
(*              to Promise.all                                             *)
(*   outcome    of the returned promise; err: the adapter it names         *)
(***************************************************************************)
AdapterIds == 1..Len(adapters)

IdleSends == [i \in AdapterIds |-> [got |-> <<>>, st |-> "idle"]]

Call(op, arg) == [op |-> op, arg |-> arg]

NewTask(kind, via, es) ==
    [kind |-> kind, via |-> via, events |-> es,
     runs |-> <<runMiddleware(es[1])>>, processed |-> <<>>,
     phase |-> "middleware", sends |-> IdleSends,
     outcome |-> "pending", err |-> 0]

\* dispatch(event) up to its first await: runMiddleware has been called.
dispatch(e, via) == NewTask("dispatch", via, <<e>>)

\* dispatchBatch(events) up to its first await: the first event's chain runs.
\* With no events the loop runs no chain and the call returns at once.
dispatchBatch(es, via) ==
    IF Len(es) = 0
    THEN [kind |-> "batch", via |-> via, events |-> es, runs |-> <<>>,
          processed |-> <<>>, phase |-> "filtered", sends |-> IdleSends,
          outcome |-> "resolved", err |-> 0]
    ELSE NewTask("batch", via, es)

\* A first call that never takes the sendBatch path
FirstCall_sendOnly(t, a) == Call("send", t.processed[1])

\* The first call an adapter receives in the fan-out of task t.
FirstCall(t, a) ==
    IF t.kind = "batch" /\ HasSendBatch(a)
    THEN Call("sendBatch", t.processed)
    ELSE Call("send", t.processed[1])

\* A fan-out that awaits the adapters one after the other: only the first
\* adapter is invoked before the first await.
FanOut_oneByOne(t) ==
    [t EXCEPT !.phase = "send",
              !.sends = [i \in AdapterIds |->
                            IF i = 1
                            THEN [got |-> <<FirstCall(t, adapters[i])>>, st |-> "pending"]
                            ELSE [got |-> <<>>, st |-> "idle"]],
              !.outcome = IF Len(adapters) = 0 THEN "resolved" ELSE "pending"]

\* A fan-out that does not await Promise.all: the call resolves as soon as
\* the adapters have been invoked.
FanOut_notAwaited(t) ==
    [t EXCEPT !.phase = "send",
              !.sends = [i \in AdapterIds |->
                            [got |-> <<FirstCall(t, adapters[i])>>, st |-> "pending"]],
              !.outcome = "resolved"]

\* Promise.all(this.adapters.map(async (adapter) => ...)): every callback runs
\* up to its first await, which invokes send (or sendBatch) on every adapter.
FanOut(t) ==
    [t EXCEPT !.phase = "send",
              !.sends = [i \in AdapterIds |->
                            [got |-> <<FirstCall(t, adapters[i])>>, st |-> "pending"]],
              !.outcome = IF Len(adapters) = 0 THEN "resolved" ELSE "pending"]

CurrentRun(t) == t.runs[Len(t.runs)]

\* The continuation of `await this.runMiddleware(event)`.
Resume(t) ==
    LET res == CurrentRun(t).result
        done == IF res = NoEvent THEN t.processed ELSE Append(t.processed, res)
        t1 == [t EXCEPT !.processed = done]
    IN  IF Len(t.runs) < Len(t.events)
        THEN [t1 EXCEPT !.runs = Append(@, runMiddleware(t.events[Len(t.runs) + 1]))]
        ELSE IF Len(done) = 0
             THEN [t1 EXCEPT !.phase = "filtered", !.outcome = "resolved"]
             ELSE FanOut(t1)

\* Whether adapter i of task t still has events to send one by one.
MoreToSend(t, i) ==
    /\ t.kind = "batch"
    /\ ~HasSendBatch(adapters[i])
    /\ Len(t.sends[i].got) < Len(t.processed)

\* Promise.all: rejects with the first rejection, resolves when all resolved.
Settled(t) ==
    IF t.outcome # "pending" THEN t
    ELSE IF \A i \in AdapterIds : t.sends[i].st = "ok"
         THEN [t EXCEPT !.outcome = "resolved"]
         ELSE t

\* The await of adapter i's send (or sendBatch) completes, well or not.
SendDone(t, i, ok) ==
    IF ok
    THEN IF MoreToSend(t, i)
         THEN [t EXCEPT !.sends[i].got =
                             Append(@, Call("send", t.processed[Len(@) + 1]))]
         ELSE Settled([t EXCEPT !.sends[i].st = "ok"])
    ELSE LET t1 == [t EXCEPT !.sends[i].st = "failed"] IN
         IF t.outcome = "pending"
         THEN [t1 EXCEPT !.outcome = "rejected", !.err = i]
         ELSE t1

(***************************************************************************)
(* EventQueue.  push, flush and destroy yield the buffer they leave and    *)
(* the tasks after the release callback, (batch) =>                        *)
(* dispatcher.dispatchBatch(batch), was invoked or not.                    *)
(***************************************************************************)
\* flush() that copies the buffer (slice) and leaves it in place
flush_keepsBuffer(q, ts, via) ==
    IF Len(q) = 0
    THEN [queue |-> q, tasks |-> ts]
    ELSE [queue |-> q, tasks |-> Append(ts, dispatchBatch(q, via))]

\* flush() without the test for an empty buffer
flush_noEmptyTest(q, ts, via) ==
    [queue |-> <<>>, tasks |-> Append(ts, dispatchBatch(q, via))]

\* flush() that looks at the consent state again and releases only the
\* buffered events whose category is granted at the time of the flush: the
\* category is looked up in the mapping by key, with analytics as default
flush_consentAgain(q, ts, via) ==
    LET Now(e) == LET key == e.area \o "::" \o e.eventName IN
                  state[IF key \in DOMAIN mapping THEN mapping[key] ELSE "analytics"] = TRUE
        now == SelectSeq(q, Now)
    IN  IF Len(now) = 0
        THEN [queue |-> <<>>, tasks |-> ts]
        ELSE [queue |-> <<>>, tasks |-> Append(ts, dispatchBatch(now, via))]

\* flush(): returns on an empty buffer, else splices the whole buffer out
\* and calls onFlush(batch) before its await.
flush(q, ts, via) ==
    IF Len(q) = 0
    THEN [queue |-> q, tasks |-> ts]
    ELSE [queue |-> <<>>, tasks |-> Append(ts, dispatchBatch(q, via))]

\* push(event) that flushes only past maxSize
push_pastMaxSize(q, ts, e) ==
    LET q1 == Append(q, e) IN
    IF Len(q1) > maxSize
    THEN flush(q1, ts, "push")
    ELSE [queue |-> q1, tasks |-> ts]

\* push(event)
push(q, ts, e) ==
    LET q1 == Append(q, e) IN
    IF Len(q1) >= maxSize
    THEN flush(q1, ts, "push")
    ELSE [queue |-> q1, tasks |-> ts]

\* destroy() that flushes and leaves the interval timer running
destroy_keepsTimer(q, ts) ==
    LET after == flush(q, ts, "destroy") IN
    [queue |-> after.queue, tasks |-> after.tasks, timer |-> timer]

\* destroy(): clears the interval timer, then flushes.
destroy(q, ts) ==
    LET after == flush(q, ts, "destroy") IN
    [queue |-> after.queue, tasks |-> after.tasks, timer |-> FALSE]

\* A constructor that never starts the interval timer
StartTimer_never(interval) == FALSE

\* A constructor that starts the interval timer unless flushInterval < 0
StartTimer_unlessNegative(interval) == interval >= 0

\* The constructor starts the interval timer when flushInterval > 0.
StartTimer(interval) == interval > 0

(***************************************************************************)
(* ConsentManager.                                                         *)
(***************************************************************************)
Categories == {"necessary", "analytics", "marketing", "functional"}

\* The constructor's state with no defaultState configured.
DefaultState == [c \in Categories |-> c = "necessary"]

\* event.key, built by the generated SDK as area::eventName
Key(e) == e.area \o "::" \o e.eventName

\* getCategory that looks the area up before the exact key
getCategory_areaFirst(e) ==
    IF e.area \in DOMAIN mapping THEN mapping[e.area]
    ELSE IF Key(e) \in DOMAIN mapping THEN mapping[Key(e)]
    ELSE IF (e.area \o "::*") \in DOMAIN mapping THEN mapping[e.area \o "::*"]
    ELSE defaultCategory

\* getCategory(event): exact key, then area, then "<area>::*", then the default
getCategory(e) ==
    IF Key(e) \in DOMAIN mapping THEN mapping[Key(e)]
    ELSE IF e.area \in DOMAIN mapping THEN mapping[e.area]
    ELSE IF (e.area \o "::*") \in DOMAIN mapping THEN mapping[e.area \o "::*"]
    ELSE defaultCategory

\* isAllowed that refuses only a category set to false
isAllowed_unlessFalse(e) ==
    LET category == getCategory(e) IN
    category \notin DOMAIN state \/ state[category] = TRUE

\* isAllowed(event): this.state[category] === true
isAllowed(e) ==
    LET category == getCategory(e) IN
    category \in DOMAIN state /\ state[category] = TRUE

\* update(partial): Object.assign(this.state, partial)
update(st, partial) ==
    [c \in DOMAIN st \cup DOMAIN partial |->
        IF c \in DOMAIN partial THEN partial[c] ELSE st[c]]

\* update({c: undefined}): Object.assign copies the undefined, and a read of
\* this.state[c] then yields undefined, as for a category that is absent.
updateUndefined(st, c) == [x \in DOMAIN st \ {c} |-> st[x]]

(***************************************************************************)
(* Steps every specification shares: the progress of the Dispatcher's      *)
(* calls.                                                                  *)
(***************************************************************************)
\* onError(err, event) of a failed dispatch: the message names the adapter.
SendError(t) == [kind |-> "send", adapter |-> adapters[t.err], event |-> t.events[1].id]

\* The tracker's .catch((err) => onError(err, event)) on the direct path; no
\* other caller of the Dispatcher attaches a handler that calls onError.
Caught(old, new, errs) ==
    IF new.via = "direct" /\ old.outcome = "pending" /\ new.outcome = "rejected"
    THEN errs (+) SetToBag({SendError(new)})
    ELSE errs

\* The zero-delay timer of a runMiddleware call fires.  On a resolved run the
\* callback changes nothing, so only unresolved runs are stepped.
MiddlewareTimeout ==
    \E k \in DOMAIN tasks : \E j \in DOMAIN tasks[k].runs :
        /\ tasks[k].runs[j].timerSet
        /\ ~tasks[k].runs[j].timerFired
        /\ ~tasks[k].runs[j].resolved
        /\ tasks' = [tasks EXCEPT ![k].runs[j] = RunTimeout(@)]
        /\ UNCHANGED <<config, asked, threw, state, queue, timer, errors, created, denied,
                       destroyed, teardown>>

\* A late middleware calls its continuation.
LateNext ==
    \E k \in DOMAIN tasks : \E j \in DOMAIN tasks[k].runs :
        \E p \in tasks[k].runs[j].pending :
            /\ tasks' = [tasks EXCEPT ![k].runs[j] = RunLateNext(@, p)]
            /\ UNCHANGED <<config, asked, threw, state, queue, timer, errors, created, denied,
                           destroyed, teardown>>

\* `await this.runMiddleware(event)` returns in dispatch or dispatchBatch.
AwaitMiddleware ==
    \E k \in DOMAIN tasks :
        /\ tasks[k].phase = "middleware"
        /\ CurrentRun(tasks[k]).resolved
        /\ tasks' = [tasks EXCEPT ![k] = Resume(@)]
        /\ UNCHANGED <<config, asked, threw, state, queue, timer, errors, created, denied,
                       destroyed, teardown>>

\* An adapter's send or sendBatch completes or fails.
SendSettle ==
    \E k \in DOMAIN tasks : \E i \in AdapterIds : \E ok \in BOOLEAN :
        /\ tasks[k].sends[i].st = "pending"
        /\ tasks' = [tasks EXCEPT ![k] = SendDone(@, i, ok)]
        /\ errors' = Caught(tasks[k], SendDone(tasks[k], i, ok), errors)
        /\ UNCHANGED <<config, asked, threw, state, queue, timer, created, denied,
                       destroyed, teardown>>

(***************************************************************************)
(* The Dispatcher called directly, as its tests do.                        *)
(***************************************************************************)
Chains(n) == UNION { [1..k -> MiddlewareKinds] : k \in 0..n }

\* isAllowed has not been called.
NoAsk == [event |-> NoEvent, allowed |-> FALSE]

\* Every init() that exists returned normally.
InitsOk == [i \in AdapterIds |-> IF HasInit(adapters[i]) THEN "ok" ELSE "none"]

\* tracker.destroy() has not been called.
NoTeardown == [phase |-> "none", task |-> 0, i |-> 0, done |-> <<>>]

InitRest2 ==
    /\ defaultCategory = "analytics"
    /\ state = DefaultState
    /\ queue = <<>>
    /\ tasks = <<>>
    /\ errors = EmptyBag
    /\ created = 0
    /\ denied = {}
    /\ destroyed = FALSE
    /\ teardown = NoTeardown
    /\ inits = InitsOk
    /\ asked = NoAsk
    /\ threw = {}

InitRest == mapping = <<>> /\ InitRest2

DispInit ==
    /\ events = EventDefs
    /\ adapters = <<"snowplow", "ga4">>
    /\ middlewareChain \in Chains(MaxChain)
    /\ queueEnabled = FALSE
    /\ maxSize = 10
    /\ flushInterval = 0
    /\ timer = FALSE
    /\ InitRest

\* dispatcher.dispatch(event)
Dispatch ==
    \E d \in events :
        /\ created < MaxEvents
        /\ created' = created + 1
        /\ tasks' = Append(tasks, dispatch(MkEvent(created + 1, d), "api"))
        /\ UNCHANGED <<config, asked, threw, state, queue, timer, errors, denied, destroyed, teardown>>

\* dispatcher.dispatchBatch(events)
DispatchBatch ==
    \E n \in 1..(MaxEvents - created) : \E ds \in [1..n -> events] :
        /\ created' = created + n
        /\ tasks' = Append(tasks,
               dispatchBatch([j \in 1..n |-> MkEvent(created + j, ds[j])], "api"))
        /\ UNCHANGED <<config, asked, threw, state, queue, timer, errors, denied, destroyed, teardown>>

\* One call of the Dispatcher in a behaviour: its calls share no state.
DispNext ==
    \/ (tasks = <<>> /\ Dispatch)
    \/ (tasks = <<>> /\ DispatchBatch)
    \/ MiddlewareTimeout
    \/ LateNext
    \/ AwaitMiddleware
    \/ SendSettle

DispSpec == DispInit /\ [][DispNext]_vars

(***************************************************************************)
(* Several calls of one Dispatcher without middleware, each started while  *)
(* the earlier ones may still be waiting for their adapters.               *)
(***************************************************************************)
CallsInit ==
    /\ events = {[area |-> "auth", eventName |-> "login"]}
    /\ adapters = <<"snowplow", "ga4">>
    /\ middlewareChain = <<>>
    /\ queueEnabled = FALSE
    /\ maxSize = 10
    /\ flushInterval = 0
    /\ timer = FALSE
    /\ InitRest

CallsNext ==
    \/ Dispatch
    \/ DispatchBatch
    \/ AwaitMiddleware
    \/ SendSettle

CallsSpec == CallsInit /\ [][CallsNext]_vars

(***************************************************************************)
(* The EventQueue driven directly, as its tests do; its release callback   *)
(* is the tracker's, (batch) => dispatcher.dispatchBatch(batch).           *)
(***************************************************************************)
QueueInit ==
    /\ events = {[area |-> "auth", eventName |-> "login"]}
    /\ adapters = <<"snowplow">>
    /\ middlewareChain = <<>>
    /\ queueEnabled = TRUE
    /\ maxSize \in 1..MaxMaxSize
    /\ flushInterval \in {-1, 0, 5000}
    /\ timer = StartTimer(flushInterval)
    /\ InitRest

\* queue.push(event)
Push ==
    \E d \in events :
        /\ created < MaxEvents
        /\ created' = created + 1
        /\ LET after == push(queue, tasks, MkEvent(created + 1, d)) IN
               /\ queue' = after.queue
               /\ tasks' = after.tasks
        /\ UNCHANGED <<config, asked, threw, state, timer, errors, denied, destroyed, teardown>>

\* queue.flush()
Flush ==
    /\ LET after == flush(queue, tasks, "flush") IN
           /\ queue' = after.queue
           /\ tasks' = after.tasks
    /\ UNCHANGED <<config, asked, threw, state, timer, errors, created, denied, destroyed, teardown>>

\* The setInterval callback, () => this.flush()
TimerFlush ==
    /\ timer
    /\ LET after == flush(queue, tasks, "timer") IN
           /\ queue' = after.queue
           /\ tasks' = after.tasks
    /\ UNCHANGED <<config, asked, threw, state, timer, errors, created, denied, destroyed, teardown>>

\* queue.destroy()
Destroy ==
    /\ destroyed' = TRUE
    /\ LET after == destroy(queue, tasks) IN
           /\ queue' = after.queue
           /\ tasks' = after.tasks
           /\ timer' = after.timer
    /\ UNCHANGED <<config, asked, threw, state, errors, created, denied, teardown>>

QueueNext ==
    \/ Push
    \/ Flush
    \/ TimerFlush
    \/ Destroy
    \/ AwaitMiddleware
    \/ SendSettle

QueueSpec == QueueInit /\ [][QueueNext]_vars

\* setInterval keeps calling its callback: a timer flush that stays possible
\* (the timer is on and the buffer holds events) eventually happens.
QueueLiveSpec == QueueSpec /\ WF_vars(TimerFlush)

(***************************************************************************)
(* The ConsentManager called directly, as its tests do, for every mapping  *)
(* over the exact key of the login event, its area and the area wildcard,  *)
(* and every default category.                                             *)
(***************************************************************************)
MappingKeys == {"auth::login", "auth", "auth::*"}

Mappings == UNION { [S -> Categories] : S \in SUBSET MappingKeys }

ConsentInit ==
    /\ events = EventDefs
    /\ adapters = <<>>
    /\ middlewareChain = <<>>
    /\ queueEnabled = FALSE
    /\ maxSize = 10
    /\ flushInterval = 0
    /\ timer = FALSE
    /\ mapping \in Mappings
    /\ defaultCategory \in Categories
    /\ state = DefaultState
    /\ queue = <<>>
    /\ tasks = <<>>
    /\ errors = EmptyBag
    /\ created = 0
    /\ denied = {}
    /\ destroyed = FALSE
    /\ teardown = NoTeardown
    /\ inits = InitsOk
    /\ asked = NoAsk
    /\ threw = {}

\* manager.isAllowed(event)
IsAllowed ==
    \E d \in events :
        /\ created < MaxEvents
        /\ created' = created + 1
        /\ asked' = [event |-> MkEvent(created + 1, d),
                     allowed |-> isAllowed(MkEvent(created + 1, d))]
        /\ UNCHANGED <<config, threw, state, queue, timer, tasks, errors, denied,
                       destroyed, teardown>>

\* manager.update({c: b}), one category at a time as the tests call it; a
\* partial of several categories leaves the state of the same calls in turn.
Update ==
    \E c \in Categories : \E b \in BOOLEAN :
        /\ state' = update(state, [x \in {c} |-> b])
        /\ UNCHANGED <<config, asked, threw, queue, timer, tasks, errors, created,
                       denied, destroyed, teardown>>

\* manager.update({c: undefined})
UpdateUndefined ==
    \E c \in Categories :
        /\ state' = updateUndefined(state, c)
        /\ UNCHANGED <<config, asked, threw, queue, timer, tasks, errors, created,
                       denied, destroyed, teardown>>

ConsentNext ==
    \/ IsAllowed
    \/ Update
    \/ UpdateUndefined

ConsentSpec == ConsentInit /\ [][ConsentNext]_vars

(***************************************************************************)
(* createTracker: the event methods and the controls.                      *)
(***************************************************************************)
\* dispatchEvent that checks consent only on the direct path
dispatchEvent_queueUngated(e, q, ts) ==
    IF queueEnabled
    THEN push(q, ts, e)
    ELSE IF ~isAllowed(e)
         THEN [queue |-> q, tasks |-> ts]
         ELSE [queue |-> q, tasks |-> Append(ts, dispatch(e, "direct"))]

\* dispatchEvent(key, area, eventName, payload) on the event it builds: the
\* buffer and the tasks it leaves.
dispatchEvent(e, q, ts) ==
    IF ~isAllowed(e)
    THEN [queue |-> q, tasks |-> ts]
    ELSE IF queueEnabled
         THEN push(q, ts, e)
         ELSE [queue |-> q, tasks |-> Append(ts, dispatch(e, "direct"))]

\* onError(err) of the event method's catch, for the n-th call
PayloadError(n) == [kind |-> "payload", adapter |-> "", event |-> n]

\* An event method whose dispatchEvent is outside the try block and runs
\* although the payload builder threw
Emit_dispatchesAnyway ==
    \E d \in events : \E throws \in BOOLEAN :
        /\ created < MaxEmits
        /\ created' = created + 1
        /\ LET e == MkEvent(created + 1, d)
               after == dispatchEvent(e, queue, tasks)
           IN  /\ queue' = after.queue
               /\ tasks' = after.tasks
               /\ denied' = IF isAllowed(e) THEN denied ELSE denied \cup {e.id}
               /\ IF throws
                  THEN /\ errors' = errors (+) SetToBag({PayloadError(created + 1)})
                       /\ threw' = threw \cup {created + 1}
                  ELSE UNCHANGED <<errors, threw>>
        /\ UNCHANGED <<config, asked, state, timer, destroyed, teardown>>

\* tracker.<area>.<event>(params): buildPayload, which may throw, then
\* dispatchEvent.
Emit ==
    \E d \in events : \E throws \in BOOLEAN :
        /\ created < MaxEmits
        /\ created' = created + 1
        /\ LET e == MkEvent(created + 1, d)
               after == dispatchEvent(e, queue, tasks)
           IN  IF throws
               THEN /\ errors' = errors (+) SetToBag({PayloadError(created + 1)})
                    /\ threw' = threw \cup {created + 1}
                    /\ UNCHANGED <<queue, tasks, denied>>
               ELSE /\ queue' = after.queue
                    /\ tasks' = after.tasks
                    /\ denied' = IF isAllowed(e) THEN denied ELSE denied \cup {e.id}
                    /\ UNCHANGED <<errors, threw>>
        /\ UNCHANGED <<config, asked, state, timer, destroyed, teardown>>

\* tracker.setConsent(state)
SetConsent ==
    \E c \in {"analytics"} : \E b \in BOOLEAN :
        /\ state' = update(state, [x \in {c} |-> b])
        /\ UNCHANGED <<config, asked, threw, queue, timer, tasks, errors, created, denied,
                       destroyed, teardown>>

\* tracker.flush(): if (queue) await queue.flush()
TrackerFlush == queueEnabled /\ Flush

\* The adapter loop of tracker.destroy() reaches adapter i: destroy?.() is
\* invoked on it and awaited; past the last adapter the call returns.
DestroyAdapter(td, i) ==
    IF i > Len(adapters)
    THEN [td EXCEPT !.phase = "done", !.i = 0]
    ELSE [td EXCEPT !.phase = "adapters", !.i = i,
                    !.done = IF HasDestroy(adapters[i]) THEN Append(@, i) ELSE @]

\* tracker.destroy() up to its first await.
TrackerDestroy ==
    /\ teardown.phase = "none"
    /\ IF queueEnabled
       THEN LET after == destroy(queue, tasks) IN
                /\ queue' = after.queue
                /\ tasks' = after.tasks
                /\ timer' = after.timer
                /\ destroyed' = TRUE
                /\ teardown' = [teardown EXCEPT !.phase = "queue",
                       !.task = IF Len(after.tasks) > Len(tasks)
                                THEN Len(after.tasks) ELSE 0]
       ELSE /\ teardown' = DestroyAdapter(teardown, 1)
            /\ UNCHANGED <<queue, tasks, timer, destroyed>>
    /\ UNCHANGED <<config, asked, threw, state, errors, created, denied>>

\* `await queue.destroy()` returns or throws in tracker.destroy().
DestroyAwaitQueue ==
    /\ teardown.phase = "queue"
    /\ teardown.task # 0 => tasks[teardown.task].outcome # "pending"
    /\ teardown' =
           IF teardown.task # 0 /\ tasks[teardown.task].outcome = "rejected"
           THEN [teardown EXCEPT !.phase = "rejected"]
           ELSE DestroyAdapter(teardown, 1)
    /\ UNCHANGED <<config, asked, threw, state, queue, timer, tasks, errors, created, denied,
                   destroyed>>

\* onError of the adapter loop's catch
DestroyError(a) == [kind |-> "destroy", adapter |-> a, event |-> 0]

\* `await adapter.destroy?.()` returns or throws for the adapter in turn.
DestroyAwaitAdapter ==
    \E ok \in BOOLEAN :
        /\ teardown.phase = "adapters"
        /\ ~ok => HasDestroy(adapters[teardown.i])
        /\ errors' = IF ok THEN errors
                     ELSE errors (+) SetToBag({DestroyError(adapters[teardown.i])})
        /\ teardown' = DestroyAdapter(teardown, teardown.i + 1)
        /\ UNCHANGED <<config, asked, threw, state, queue, timer, tasks, created, denied,
                       destroyed>>

\* The tracker with batching off or on; the interval timer is off here (it
\* is exercised on the EventQueue itself, under QueueSpec).  The necessary
\* category is granted from the start, so login events pass the gate and
\* logout events wait for setConsent({analytics: true}).
Init ==
    /\ events = EventDefs
    /\ adapters = <<"snowplow", "ga4">>
    /\ middlewareChain = <<>>
    /\ queueEnabled \in BOOLEAN
    /\ maxSize \in 1..MaxEmits
    /\ flushInterval = 0
    /\ timer = (queueEnabled /\ StartTimer(flushInterval))
    /\ mapping = [x \in {"auth::login"} |-> "necessary"]
    /\ InitRest2

Next ==
    \/ Emit
    \/ SetConsent
    \/ TrackerFlush
    \/ TrackerDestroy
    \/ DestroyAwaitQueue
    \/ DestroyAwaitAdapter
    \/ AwaitMiddleware
    \/ SendSettle

Spec == Init /\ [][Next]_vars

\* The tracker of a caller that emits nothing once it has called destroy():
\* every event is emitted before tracker.destroy() is called, and teardown
\* then runs against the Dispatcher calls and flushes still in flight.
EmitBeforeDestroy == teardown.phase = "none" /\ Emit

TeardownNext ==
    \/ EmitBeforeDestroy
    \/ TrackerFlush
    \/ TrackerDestroy
    \/ DestroyAwaitQueue
    \/ DestroyAwaitAdapter
    \/ AwaitMiddleware
    \/ SendSettle

TeardownSpec == Init /\ [][TeardownNext]_vars

(***************************************************************************)
(* createTracker with adapters whose init() may fail: it returns, throws,  *)
(* or returns a promise that rejects (Adapter.init is void or a promise).  *)
(* The two adapters stand for any adapters that define init(); they have   *)
(* the optional members of ga4 and amplitude.  Batching is off.            *)
(***************************************************************************)
InitOutcomes == {"ok", "throws", "rejects"}

\* onError of the init loop's catch
InitError(a) == [kind |-> "init", adapter |-> a, event |-> 0]

\* The onError calls of the init loop: adapter.init?.() is called inside a
\* try block and its result is dropped, so only a synchronous throw reaches
\* the catch.
InitErrors(outcomes) ==
    SetToBag({ InitError(adapters[i]) : i \in { j \in AdapterIds : outcomes[j] = "throws" } })

CtorInit ==
    /\ events = EventDefs
    /\ adapters = <<"ga4", "amplitude">>
    /\ middlewareChain = <<>>
    /\ queueEnabled = FALSE
    /\ maxSize = 10
    /\ flushInterval = 0
    /\ timer = FALSE
    /\ mapping = [x \in {"auth"} |-> "necessary"]
    /\ defaultCategory = "analytics"
    /\ state = DefaultState
    /\ queue = <<>>
    /\ tasks = <<>>
    /\ inits \in [AdapterIds -> InitOutcomes]
    /\ errors = InitErrors(inits)
    /\ created = 0
    /\ denied = {}
    /\ destroyed = FALSE
    /\ teardown = NoTeardown
    /\ asked = NoAsk
    /\ threw = {}

CtorNext ==
    \/ Emit
    \/ AwaitMiddleware
    \/ SendSettle

CtorSpec == CtorInit /\ [][CtorNext]_vars

(***************************************************************************)
(* Properties of the EventQueue, checked under QueueSpec.  A task is one   *)
(* invocation of the release callback; it is in flight while its outcome   *)
(* is pending.  Under QueueSpec every created event was pushed.            *)
(***************************************************************************)
Ids(es) == [j \in DOMAIN es |-> es[j].id]

Releases == UNION { { <<k, j>> : j \in DOMAIN tasks[k].events } : k \in DOMAIN tasks }

TimesReleased(n) == Cardinality({ p \in Releases : tasks[p[1]].events[p[2]].id = n })

InBuffer(n) == \E j \in DOMAIN queue : queue[j].id = n

InFlight == { k \in DOMAIN tasks : tasks[k].outcome = "pending" }

\* C6: under any interleaving of push, flush, timer flush and destroy, every
\* pushed event is passed to the release callback in at most one batch, is
\* not passed while it is still buffered, and has been passed in exactly one
\* batch once a flush has left the buffer empty.
C6_NoLossNoDuplicate ==
    \A n \in 1..created :
        /\ TimesReleased(n) <= 1
        /\ InBuffer(n) => TimesReleased(n) = 0
        /\ queue = <<>> => TimesReleased(n) = 1

\* An event was pushed while an earlier release callback was in flight, and a
\* later flush took it.
C6_Witness ==
    /\ queue = <<>>
    /\ \E k1, k2 \in DOMAIN tasks :
           k1 < k2 /\ k1 \in InFlight /\ tasks[k2].via \in {"flush", "timer"}

\* C7: while nothing but size-triggered flushes has released a batch, the
\* first maxSize-1 pushes invoke no release callback and every push that
\* fills the buffer to maxSize has invoked it once, in the same step, with
\* exactly those maxSize events in push order.
C7_SizeTrigger ==
    (\A k \in DOMAIN tasks : tasks[k].via = "push") =>
        /\ Len(tasks) = created \div maxSize
        /\ Len(queue) = created % maxSize
        /\ \A k \in DOMAIN tasks :
               Ids(tasks[k].events) = [j \in 1..maxSize |-> (k - 1) * maxSize + j]

\* maxSize pushes, of two events or more, released one batch.
C7_Witness ==
    /\ maxSize >= 2
    /\ created = maxSize
    /\ Len(tasks) = 1
    /\ tasks[1].via = "push"

\* A step of destroy(): the first call, or any call that releases a batch.
IsDestroyStep ==
    \/ destroyed' /\ ~destroyed
    \/ Len(tasks') > Len(tasks) /\ tasks'[Len(tasks')].via = "destroy"

C8_DestroyStep ==
    IsDestroyStep =>
        /\ queue' = <<>>
        /\ ~timer'
        /\ IF queue = <<>>
           THEN tasks' = tasks
           ELSE /\ tasks' = Append(tasks, tasks'[Len(tasks')])
                /\ tasks'[Len(tasks')].events = queue

C8_NoTimerFlushStep ==
    destroyed => ~(Len(tasks') > Len(tasks) /\ tasks'[Len(tasks')].via = "timer")

\* C8: destroy() invokes the release callback once with all buffered events
\* in push order when the buffer is non-empty and not at all when it is
\* empty, and once destroy() was called the timer is off and no
\* timer-triggered flush releases a batch.
C8_DestroyFlushesOnce ==
    /\ [][C8_DestroyStep /\ C8_NoTimerFlushStep]_vars
    /\ [](destroyed => ~timer)

\* destroy() of a queue with a timer released the two events buffered.
C8_Witness ==
    /\ destroyed
    /\ flushInterval > 0
    /\ \E k \in DOMAIN tasks : tasks[k].via = "destroy" /\ Len(tasks[k].events) >= 2

\* C9: the release callback is never invoked with zero events.
C9_NeverEmptyBatch == \A k \in DOMAIN tasks : Len(tasks[k].events) >= 1

\* destroy() flushed a queue nothing was pushed to, and no callback ran.
C9_Witness == destroyed /\ created = 0 /\ tasks = <<>>

\* C10: at most one release callback of a timer-triggered flush is in flight
\* at any time.
C10_TimerFlushesDoNotOverlap ==
    Cardinality({ k \in InFlight : tasks[k].via = "timer" }) <= 1

(***************************************************************************)
(* Properties of Dispatcher.dispatch, checked under DispSpec.              *)
(***************************************************************************)
DispatchTasks == { k \in DOMAIN tasks : tasks[k].kind = "dispatch" }

\* The event the chain of a dispatch call resolved with.
FinalEvent(t) == t.runs[1].result

C2_InvokedOnce ==
    \A k \in DispatchTasks :
        tasks[k].phase = "send" =>
            \A i \in AdapterIds :
                /\ Len(tasks[k].sends[i].got) = 1
                /\ tasks[k].sends[i].got[1].op = "send"
                /\ tasks[k].sends[i].got[1].arg = FinalEvent(tasks[k])
                /\ tasks[k].sends[i].st \in {"pending", "ok", "failed"}

C2_FailureStep ==
    \A k \in DispatchTasks : \A i \in AdapterIds :
        (k \in DOMAIN tasks' /\ tasks[k].sends[i].st # "failed"
                             /\ tasks'[k].sends[i].st = "failed") =>
            \A j \in AdapterIds \ {i} : tasks'[k].sends[j] = tasks[k].sends[j]

\* C2: once dispatch fans out, every adapter's send has been invoked exactly
\* once with the final event, whichever adapters fail, and the failure of
\* one adapter's send changes nothing for the other adapters, whose sends
\* stay pending or completed.
C2_FailureIsolation == []C2_InvokedOnce /\ [][C2_FailureStep]_vars

\* In one dispatch call the first adapter's send failed and the second
\* adapter's send completed.
C2_Witness ==
    \E k \in DispatchTasks :
        /\ Len(adapters) >= 2
        /\ tasks[k].sends[1].st = "failed"
        /\ tasks[k].sends[2].st = "ok"

\* C3: dispatch settles only after every adapter's send has completed, and
\* its outcome names every adapter that failed.
C3_SettlesAfterAllSends ==
    \A k \in DispatchTasks :
        (tasks[k].phase = "send" /\ tasks[k].outcome # "pending") =>
            /\ \A i \in AdapterIds : tasks[k].sends[i].st \in {"ok", "failed"}
            /\ \A i \in AdapterIds : tasks[k].sends[i].st = "failed" => tasks[k].err = i

\* Middleware m never calls its continuation for event e.
Declines(m, e) == m = "drop" \/ (m = "filter" /\ e.eventName = "logout")

\* A middleware that declines was invoked in run r.
Declined(r) ==
    \E x \in Range(r.invoked) : Declines(middlewareChain[x[1] + 1], x[2])

\* Every middleware of the chain calls its continuation, if at all, once and
\* before it returns.
PlainChain == Range(middlewareChain) \subseteq {"pass", "tag", "drop", "filter"}

\* C5: with a declining middleware at any position of the chain, no adapter
\* is invoked for the event and dispatch resolves: once the zero-delay timer
\* of the run has fired, nothing else can resolve the promise dispatch awaits.
C5_DeclineDropsAndResolves ==
    \A k \in DispatchTasks :
        (PlainChain /\ Declined(tasks[k].runs[1])) =>
            /\ \A i \in AdapterIds : tasks[k].sends[i].got = <<>>
            /\ tasks[k].runs[1].timerFired => tasks[k].runs[1].resolved

(***************************************************************************)
(* Properties of the tracker, checked under Spec.                          *)
(***************************************************************************)
\* Adapter i was invoked (send or sendBatch) with event n in task k.
Received(k, i, n) ==
    \E c \in Range(tasks[k].sends[i].got) :
        IF c.op = "send" THEN c.arg.id = n ELSE n \in Range(Ids(c.arg))

Delivered(n) == \E k \in DOMAIN tasks : \E i \in AdapterIds : Received(k, i, n)

\* onError was invoked for a failed delivery of event n.
Reported(n) == \E x \in BagToSet(errors) : x.kind = "send" /\ x.event = n

\* C1: an event that isAllowed refused when it was emitted is never buffered,
\* never handed to the Dispatcher, never passed to an adapter's send or
\* sendBatch, and never reported to onError.
C1_ConsentGate ==
    \A n \in denied :
        /\ ~InBuffer(n)
        /\ TimesReleased(n) = 0
        /\ ~Delivered(n)
        /\ ~Reported(n)

\* With batching on, one event was refused and another one was delivered.
C1_Witness ==
    /\ queueEnabled
    /\ denied # {}
    /\ \E n \in 1..created : Delivered(n)

\* C4: every failure of an adapter's send or sendBatch is reported to
\* onError, whichever way the delivery was triggered.
C4_EverySendFailureReported ==
    \A k \in DOMAIN tasks : \A i \in AdapterIds :
        tasks[k].sends[i].st = "failed" =>
            \E x \in BagToSet(errors) :
                /\ x.kind = "send"
                /\ x.adapter = adapters[i]
                /\ x.event \in Range(Ids(tasks[k].events))

(***************************************************************************)
(* Properties of Dispatcher.dispatchBatch, checked under DispSpec.         *)
(***************************************************************************)
BatchTasks == { k \in DOMAIN tasks : tasks[k].kind = "batch" }

\* The send calls of the sequential path, one per surviving event, in order.
SendsOf(t) == [j \in DOMAIN t.processed |-> Call("send", t.processed[j])]

C11_Calls ==
    \A k \in BatchTasks :
        tasks[k].phase = "send" =>
            \A i \in AdapterIds :
                LET got == tasks[k].sends[i].got IN
                IF HasSendBatch(adapters[i])
                THEN /\ Len(got) = 1
                     /\ got[1].op = "sendBatch"
                     /\ got[1].arg = tasks[k].processed
                ELSE /\ Len(got) \in 1..Len(tasks[k].processed)
                     /\ \A j \in DOMAIN got : got[j].op = "send"
                     /\ got = SubSeq(SendsOf(tasks[k]), 1, Len(got))
                     /\ tasks[k].sends[i].st = "ok" => Len(got) = Len(tasks[k].processed)

C11_SequentialStep ==
    \A k \in BatchTasks : \A i \in AdapterIds :
        (tasks[k].phase = "send" /\ tasks'[k].sends[i].got # tasks[k].sends[i].got) =>
            /\ tasks[k].sends[i].st = "pending"
            /\ Len(tasks'[k].sends[i].got) = Len(tasks[k].sends[i].got) + 1
            /\ \A j \in AdapterIds \ {i} : tasks'[k].sends[j] = tasks[k].sends[j]

\* C11: in dispatchBatch an adapter with sendBatch receives one sendBatch
\* call carrying all surviving events in order and no send call; an adapter
\* without it receives send calls only, for the surviving events in order,
\* one more each time the previous one completed, and all of them once its
\* sends have completed.
C11_BatchDelivery == []C11_Calls /\ [][C11_SequentialStep]_vars

\* Two surviving events: snowplow got them in one sendBatch call, ga4 in two
\* send calls, and both completed.
C11_Witness ==
    \E k \in BatchTasks :
        /\ Len(tasks[k].processed) >= 2
        /\ adapters = <<"snowplow", "ga4">>
        /\ tasks[k].sends[1].st = "ok"
        /\ tasks[k].sends[2].st = "ok"
        /\ Len(tasks[k].sends[2].got) = Len(tasks[k].processed)

\* The results of the chains awaited so far that resolved with an event.
RECURSIVE Survivors(_, _)
Survivors(t, n) ==
    IF n = 0 THEN <<>>
    ELSE IF t.runs[n].result = NoEvent
         THEN Survivors(t, n - 1)
         ELSE Append(Survivors(t, n - 1), t.runs[n].result)

C12_Independent ==
    \A k \in BatchTasks : \A j \in DOMAIN tasks[k].runs :
        /\ Len(tasks[k].runs) <= Len(tasks[k].events)
        /\ tasks[k].runs[j].invoked # <<>> =>
               tasks[k].runs[j].invoked[1] = <<0, tasks[k].events[j]>>
        /\ tasks[k].runs[j].resolved =>
               tasks[k].runs[j].result.id \in {0, tasks[k].events[j].id}

C12_Delivered ==
    \A k \in BatchTasks :
        /\ tasks[k].phase = "send" =>
               /\ Len(tasks[k].runs) = Len(tasks[k].events)
               /\ tasks[k].processed = Survivors(tasks[k], Len(tasks[k].events))
               /\ tasks[k].processed # <<>>
        /\ tasks[k].phase = "filtered" =>
               /\ Survivors(tasks[k], Len(tasks[k].events)) = <<>>
               /\ tasks[k].outcome = "resolved"
               /\ \A i \in AdapterIds : tasks[k].sends[i].got = <<>>

\* A declined event of the batch ends its chain: once the zero-delay timer
\* of its run has fired the run is resolved, and the call goes on.
C12_DeclineEndsChain ==
    \A k \in BatchTasks :
        (/\ PlainChain
         /\ Declined(CurrentRun(tasks[k]))
         /\ CurrentRun(tasks[k]).timerFired) => CurrentRun(tasks[k]).resolved

\* C12: dispatchBatch runs the chain on each event independently, an event
\* that is declined does not keep the others from being delivered, the
\* adapters get exactly the events whose chain resolved with an event, in
\* order, and when none survives the call resolves with no adapter invoked.
C12_BatchMiddleware == C12_Independent /\ C12_Delivered /\ C12_DeclineEndsChain

(***************************************************************************)
(* Properties of the ConsentManager, checked under ConsentSpec.            *)
(***************************************************************************)
\* The state holds exactly true for category c.
Granted(c) == c \in DOMAIN state /\ state[c] = TRUE

\* The one category the precedence rule picks for event e.
IsResolved(e, c) ==
    /\ Key(e) \in DOMAIN mapping => c = mapping[Key(e)]
    /\ (Key(e) \notin DOMAIN mapping /\ e.area \in DOMAIN mapping) => c = mapping[e.area]
    /\ (/\ Key(e) \notin DOMAIN mapping
        /\ e.area \notin DOMAIN mapping
        /\ (e.area \o "::*") \in DOMAIN mapping) => c = mapping[e.area \o "::*"]
    /\ (/\ Key(e) \notin DOMAIN mapping
        /\ e.area \notin DOMAIN mapping
        /\ (e.area \o "::*") \notin DOMAIN mapping) => c = defaultCategory

C13_Step ==
    asked' # asked =>
        \E c \in Categories :
            /\ IsResolved(asked'.event, c)
            /\ asked'.allowed = Granted(c)

\* C13: every call of isAllowed answers with the state of the one category
\* picked by strict precedence: the mapping entry of the exact key, else of
\* the area, else of "<area>::*", else the default category.
C13_Precedence == [][C13_Step]_vars

\* isAllowed refused a login event mapped to marketing by its exact key
\* although its area is mapped to necessary, which is granted.
C13_Witness ==
    /\ asked.event.eventName = "login"
    /\ ~asked.allowed
    /\ DOMAIN mapping = MappingKeys
    /\ mapping["auth::login"] = "marketing"
    /\ mapping["auth"] = "necessary"
    /\ mapping["auth::*"] = "functional"
    /\ state = DefaultState

C14_Step ==
    (asked' # asked /\ asked'.allowed) => Granted(getCategory(asked'.event))

\* C14: at construction only necessary is granted, and after any sequence
\* of updates isAllowed answers true only if the state holds exactly true
\* for the event's category: a category set to false or absent from the
\* state is refused.
C14_DenyByDefault ==
    /\ \A c \in Categories : Granted(c) <=> c = "necessary"
    /\ [][C14_Step]_vars

\* With no mapping and the default category analytics, isAllowed refused an
\* event while analytics was absent from the state.
C14_Witness ==
    /\ asked.event.id # 0
    /\ ~asked.allowed
    /\ mapping = <<>>
    /\ defaultCategory = "analytics"
    /\ "analytics" \notin DOMAIN state

(***************************************************************************)
(* Properties of Dispatcher.runMiddleware, checked under DispSpec.         *)
(***************************************************************************)
\* The event middleware m at index i passes to its continuation when it is
\* given event e.
PassedOn(m, i, e) == IF m = "tag" THEN Mark(e, i) ELSE e

\* Run r invoked the middleware in registration order, each one after the
\* first with the event its predecessor passed on.
InOrder(r) ==
    \A n \in DOMAIN r.invoked :
        /\ r.invoked[n][1] = n - 1
        /\ n > 1 =>
               LET m == middlewareChain[n - 1]
                   e == r.invoked[n - 1][2]
               IN  ~Declines(m, e) /\ r.invoked[n][2] = PassedOn(m, n - 2, e)

\* Run r resolved with the event its last middleware passed on.
FromLast(r, e0) ==
    IF Len(middlewareChain) = 0
    THEN r.result = e0
    ELSE /\ Len(r.invoked) = Len(middlewareChain)
         /\ LET m == middlewareChain[Len(middlewareChain)]
                e == r.invoked[Len(middlewareChain)][2]
            IN  ~Declines(m, e) /\ r.result = PassedOn(m, Len(middlewareChain) - 1, e)

\* C15: for one event the middleware are invoked in registration order, each
\* with the event its predecessor passed to its continuation, and every
\* adapter receives the event the last middleware passed to its continuation
\* (the original event when the chain is empty).
C15_ChainOrder ==
    \A k \in DispatchTasks :
        /\ InOrder(tasks[k].runs[1])
        /\ tasks[k].phase = "send" =>
               /\ FromLast(tasks[k].runs[1], tasks[k].events[1])
               /\ \A i \in AdapterIds :
                      tasks[k].sends[i].got = <<Call("send", tasks[k].runs[1].result)>>

\* Some middleware of run r called its continuation more than once.
CalledTwice(r) ==
    \E x \in Range(r.invoked) : middlewareChain[x[1] + 1] = "twice"

\* C16: when a middleware calls its continuation more than once for an
\* event, the dispatch of that event fails, so it never resolves; no
\* middleware is invoked more than once for the event and no adapter
\* receives the event a second time.
C16_SecondCallFails ==
    \A k \in DispatchTasks :
        /\ \A m, n \in DOMAIN tasks[k].runs[1].invoked :
               tasks[k].runs[1].invoked[m][1] = tasks[k].runs[1].invoked[n][1] => m = n
        /\ CalledTwice(tasks[k].runs[1]) =>
               /\ tasks[k].outcome # "resolved"
               /\ \A i \in AdapterIds : Len(tasks[k].sends[i].got) <= 1

(***************************************************************************)
(* Properties of the tracker's event methods and controls, under Spec.     *)
(***************************************************************************)
\* C17: when the payload builder of an event method throws, onError is
\* invoked exactly once for that call, with the builder's error, and the
\* event is neither buffered nor handed to the Dispatcher nor delivered.
C17_PayloadThrow ==
    \A n \in threw :
        /\ CopiesIn(PayloadError(n), errors) = 1
        /\ \A x \in BagToSet(errors) : x.event = n => x = PayloadError(n)
        /\ ~InBuffer(n)
        /\ TimesReleased(n) = 0
        /\ ~Delivered(n)

\* One call's builder threw and a later call's event was delivered.
C17_Witness ==
    \E n \in threw : \E m \in 1..created : m > n /\ Delivered(m)

\* The adapters that define destroy(), in adapter order.
RECURSIVE WithDestroy(_)
WithDestroy(n) ==
    IF n = 0 THEN <<>>
    ELSE IF HasDestroy(adapters[n]) THEN Append(WithDestroy(n - 1), n)
         ELSE WithDestroy(n - 1)

\* tracker.destroy() has returned or thrown to its caller.
DestroyEnded == teardown.phase \in {"done", "rejected"}

\* C18: tracker.destroy() invokes destroy() once on every adapter that
\* defines it, in adapter order, also after the destroy() of an earlier
\* adapter failed, and onError is told of a failure once, naming an adapter
\* whose destroy() was invoked.
C18_DestroysEveryAdapter ==
    /\ \A m, n \in DOMAIN teardown.done : m < n => teardown.done[m] < teardown.done[n]
    /\ \A x \in BagToSet(errors) :
           x.kind = "destroy" =>
               /\ CopiesIn(x, errors) = 1
               /\ \E n \in DOMAIN teardown.done : adapters[teardown.done[n]] = x.adapter
    /\ DestroyEnded => teardown.done = WithDestroy(Len(adapters))

(***************************************************************************)
(* Properties of createTracker's adapter init loop, under CtorSpec.        *)
(***************************************************************************)
\* C19: every failure of an adapter's init(), thrown or signalled by a
\* rejected promise, has been reported to onError once, naming the adapter,
\* and init() failures keep no adapter from receiving the events emitted
\* afterwards.
C19_InitFailuresReported ==
    /\ \A i \in AdapterIds :
           inits[i] \in {"throws", "rejects"} =>
               CopiesIn(InitError(adapters[i]), errors) = 1
    /\ \A k \in DOMAIN tasks :
           tasks[k].phase = "send" =>
               \A i \in AdapterIds : Len(tasks[k].sends[i].got) = 1

(***************************************************************************)
(* The EventQueue without a timer, checked under QueueSpec.                *)
(***************************************************************************)
\* C20: a queue constructed with flushInterval <= 0 has no timer, and its
\* release callback is invoked only by a push that fills the buffer to
\* maxSize, by an explicit flush or by destroy, never by the timer.
C20_NoTimer ==
    flushInterval <= 0 =>
        /\ ~timer
        /\ \A k \in DOMAIN tasks :
               /\ tasks[k].via \in {"push", "flush", "destroy"}
               /\ tasks[k].via = "push" => Len(tasks[k].events) = maxSize

\* A queue with flushInterval 0 released one batch from push and one from an
\* explicit flush.
C20_Witness ==
    /\ flushInterval = 0
    /\ \E k1, k2 \in DOMAIN tasks : tasks[k1].via = "push" /\ tasks[k2].via = "flush"

(***************************************************************************)
(* The time trigger of the EventQueue, checked under QueueLiveSpec.        *)
(***************************************************************************)
\* C21: with flushInterval > 0 and the queue not destroyed, an event in the
\* buffer is eventually passed to the release callback, with no push and no
\* explicit flush needed: the timer alone gets it there.
C21_TimeTrigger ==
    \A n \in 1..MaxEvents :
        (InBuffer(n) /\ flushInterval > 0 /\ ~destroyed) ~> (TimesReleased(n) = 1)

\* A timer-triggered flush released a batch of a queue that was not
\* destroyed and whose buffer never reached maxSize.
C21_Witness ==
    /\ ~destroyed
    /\ created < maxSize
    /\ queue = <<>>
    /\ \E k \in DOMAIN tasks : tasks[k].via = "timer"

(***************************************************************************)
(* An adapter that does not answer, checked under CallsSpec.  A send or    *)
(* sendBatch that never completes is one that is pending in every state.   *)
(***************************************************************************)
\* Adapter j has been invoked in task t with the event, or with the batch or
\* its first event.
Invoked(t, j) ==
    /\ Len(t.sends[j].got) >= 1
    /\ IF t.sends[j].got[1].op = "sendBatch"
       THEN t.sends[j].got[1].arg = t.processed
       ELSE t.sends[j].got[1].arg = t.processed[1]

\* C22: while an adapter's send or sendBatch is pending in a call, the call
\* has not resolved, every
\* other adapter of that call has been invoked and has received the whole
\* batch once its own sends completed, and every later call that reached its
\* fan-out has invoked all adapters, the pending one included.
C22_HungAdapter ==
    \A k \in DOMAIN tasks : \A i \in AdapterIds :
        tasks[k].sends[i].st = "pending" =>
            /\ tasks[k].outcome # "resolved"
            /\ \A j \in AdapterIds \ {i} :
                   /\ Invoked(tasks[k], j)
                   /\ tasks[k].sends[j].st = "ok" =>
                          \/ tasks[k].sends[j].got = <<Call("sendBatch", tasks[k].processed)>>
                          \/ tasks[k].sends[j].got = SendsOf(tasks[k])
            /\ \A k2 \in DOMAIN tasks :
                   (k2 > k /\ tasks[k2].phase = "send") =>
                       \A j \in AdapterIds : Invoked(tasks[k2], j)

\* The first adapter is still pending in the first call, a batch of two,
\* while the second adapter completed it and a later call resolved.
C22_Witness ==
    /\ Len(tasks) >= 2
    /\ Len(tasks[1].events) >= 2
    /\ tasks[1].sends[1].st = "pending"
    /\ tasks[1].sends[2].st = "ok"
    /\ tasks[1].outcome = "pending"
    /\ tasks[2].outcome = "resolved"

(***************************************************************************)
(* The zero-delay timer of runMiddleware, checked under DispSpec.          *)
(***************************************************************************)
AllRuns == UNION { { tasks[k].runs[j] : j \in DOMAIN tasks[k].runs } : k \in DOMAIN tasks }

\* Run r was resolved by its timer: the event is classified as dropped.
Dropped(r) == r.resolved /\ r.result = NoEvent

CalledItsNext(r, i) ==
    \E x \in Range(r.invoked) :
        /\ x[1] = i
        /\ ~Declines(middlewareChain[i + 1], x[2])
        /\ x \notin r.pending

\* C24: no middleware can be bypassed: an event is delivered to the adapters
\* only if every middleware of the chain was invoked for it and itself
\* called its continuation, so a middleware that declines keeps the event
\* dropped even when an earlier middleware calls its continuation again.
C24_NoBypass ==
    \A k \in DispatchTasks :
        (\E i \in AdapterIds : tasks[k].sends[i].got # <<>>) =>
            \A i \in 0..(Len(middlewareChain) - 1) : CalledItsNext(tasks[k].runs[1], i)

(***************************************************************************)
(* tracker.flush() against flushes still in flight, under QueueSpec:       *)
(* tracker.flush() is queue.flush() when batching is enabled, and the      *)
(* events pushed are those dispatchEvent let through the consent gate.     *)
(***************************************************************************)
\* The calls of flush() that found events in the buffer: the promise such a
\* call returned follows the dispatchBatch call of the batch it took.
FlushCalls == { k \in DOMAIN tasks : tasks[k].via = "flush" }

\* Adapter i was handed all the events of Dispatcher call t, in one
\* sendBatch or in one send per event, and the last of these has completed.
Completed(t, i) ==
    /\ t.sends[i].st \in {"ok", "failed"}
    /\ Len(t.sends[i].got) >= 1
    /\ IF t.sends[i].got[1].op = "sendBatch"
       THEN t.sends[i].got = <<Call("sendBatch", t.events)>>
       ELSE t.sends[i].st = "ok" =>
                t.sends[i].got = [j \in DOMAIN t.events |-> Call("send", t.events[j])]

DestroyInvoked == { i \in AdapterIds : \E n \in DOMAIN teardown.done : teardown.done[n] = i }

\* C26: once tracker.destroy() has invoked an adapter's destroy(), neither
\* send nor sendBatch of that adapter is invoked afterwards for an event
\* emitted before destroy() was called, with batching off and on.
C26_Step ==
    \A i \in DestroyInvoked :
        \A k \in DOMAIN tasks : tasks'[k].sends[i].got = tasks[k].sends[i].got

C26_NoSendAfterDestroy == [][C26_Step]_vars

(***************************************************************************)
(* Consent against the batch queue, under Spec.                            *)
(***************************************************************************)
\* Event n was released to the Dispatcher in call k.
ReleasedIn(k, n) == \E j \in DOMAIN tasks[k].events : tasks[k].events[j].id = n

\* C27: consent is evaluated once per event, when it is emitted.  An event
\* that was allowed then is never taken back: it stays in the buffer until
\* a flush releases it, whatever setConsent did in between, and the
\* Dispatcher hands it to the adapters.  An event that was denied then is
\* never buffered, released or delivered, whatever is granted afterwards.
C27_ConsentAtEmit ==
    \A n \in 1..created :
        IF n \in denied
        THEN ~InBuffer(n) /\ TimesReleased(n) = 0 /\ ~Delivered(n)
        ELSE n \notin threw =>
                 /\ IF InBuffer(n) THEN TimesReleased(n) = 0 ELSE TimesReleased(n) = 1
                 /\ \A k \in DOMAIN tasks : \A i \in AdapterIds :
                        (/\ ReleasedIn(k, n)
                         /\ tasks[k].phase = "send"
                         /\ \/ HasSendBatch(adapters[i]) /\ tasks[k].kind = "batch"
                            \/ tasks[k].kind = "dispatch"
                            \/ tasks[k].sends[i].st = "ok")
                            => Received(k, i, n)

\* An event allowed when it was emitted was released by a flush and
\* delivered while its category is revoked, and an event emitted under the
\* revocation was denied.
C27_Witness ==
    /\ denied # {}
    /\ \E k \in DOMAIN tasks : \E j \in DOMAIN tasks[k].events :
           /\ tasks[k].via = "flush"
           /\ ~isAllowed(tasks[k].events[j])
           /\ \A i \in AdapterIds : Received(k, i, tasks[k].events[j].id)
           /\ \E m \in denied : m > tasks[k].events[j].id

\* The final flush of tracker.destroy() took the remaining events and its
\* dispatchBatch call rejected: an adapter's send or sendBatch failed.
FinalFlushFailed ==
    /\ queueEnabled
    /\ teardown.task # 0
    /\ tasks[teardown.task].via = "destroy"
    /\ tasks[teardown.task].outcome = "rejected"

\* C28: with batching enabled, tracker.destroy() invokes destroy() on every
\* adapter that defines it even when the final flush of the queue fails
\* because an adapter's send or sendBatch rejects for the remaining events.
C28_DestroyAfterFailedFlush ==
    (FinalFlushFailed /\ DestroyEnded) =>
        \A i \in AdapterIds : HasDestroy(adapters[i]) => i \in DestroyInvoked

(***************************************************************************)
(* Size bounds of the EventQueue, under QueueSpec.                         *)
(***************************************************************************)
\* C29: for maxSize >= 1, after any sequence of push, flush, timer firings
\* and destroy, the buffer holds fewer than maxSize events whenever no call
\* is executing, and every batch passed to the release callback holds at
\* least one and at most maxSize events.
C29_SizeBounds ==
    /\ maxSize >= 1
    /\ Len(queue) < maxSize
    /\ \A k \in DOMAIN tasks :
           Len(tasks[k].events) >= 1 /\ Len(tasks[k].events) <= maxSize

\* With a maxSize of at least 2, one released batch is full and another
\* one, taken by a flush, by the timer or by destroy, is not.
C29_Witness ==
    /\ maxSize >= 2
    /\ \E k \in DOMAIN tasks : Len(tasks[k].events) = maxSize /\ tasks[k].via = "push"
    /\ \E k \in DOMAIN tasks : Len(tasks[k].events) < maxSize /\ tasks[k].via # "push"

(***************************************************************************)
(* The sequential path of Dispatcher.dispatchBatch, under DispSpec.        *)
(***************************************************************************)
\* A send of adapter i, which has no sendBatch, failed in batch call k.
SendFailed(k, i) ==
    /\ k \in BatchTasks
    /\ ~HasSendBatch(adapters[i])
    /\ tasks[k].sends[i].st = "failed"

C30_Rejects ==
    \A k \in DOMAIN tasks : \A i \in AdapterIds :
        SendFailed(k, i) =>
            /\ tasks[k].outcome = "rejected"
            /\ tasks[k].err = i
            /\ \A j \in AdapterIds \ {i} :
                   tasks[k].sends[j].st = "ok" =>
                       IF HasSendBatch(adapters[j])
                       THEN tasks[k].sends[j].got = <<Call("sendBatch", tasks[k].processed)>>
                       ELSE tasks[k].sends[j].got = SendsOf(tasks[k])

C30_NoLaterSend ==
    \A k \in DOMAIN tasks : \A i \in AdapterIds :
        SendFailed(k, i) => tasks'[k].sends[i].got = tasks[k].sends[i].got

\* C30: in dispatchBatch, when send fails for the i-th surviving event on an
\* adapter without sendBatch, no later event of the batch is sent to that
\* adapter and the call rejects with an error naming that adapter, while
\* every other adapter still receives the complete batch.
C30_SequentialFailure == []C30_Rejects /\ [][C30_NoLaterSend]_vars
====
